---- MODULE Spec2Model ----
(***************************************************************************)
(* Model of src/main.py: run_pipeline() reads two environment values and   *)
(* calls fetch_and_load() for the two sources "raw_products" and           *)
(* "raw_carts"; fetch_and_load() issues one HTTP GET, parses the JSON      *)
(* body, builds a pandas DataFrame, sanitizes the column names, converts   *)
(* list/dict columns to strings and replaces the BigQuery table.           *)
(*                                                                         *)
(* Strings whose characters matter (JSON keys, column names, cell text)    *)
(* are sequences of one-character strings; a JSON value is a record        *)
(* [k, s, e]: k its kind, s the text of a scalar, e the entries of a list  *)
(* or dict (a list entry has the empty key).                               *)
(***************************************************************************)
EXTENDS Integers, Sequences, FiniteSets, TLC

\* Number of times the process is started in one behaviour.
MaxRuns == 2

----------------------------------------------------------------------------
(* JSON values as produced by response.json() *)

JNull == [k |-> "null", s |-> <<>>, e |-> <<>>]
JInt(digits) == [k |-> "int", s |-> digits, e |-> <<>>]
JStr(chars) == [k |-> "str", s |-> chars, e |-> <<>>]
JList(items) == [k |-> "list", s |-> <<>>, e |-> items]
JDict(pairs) == [k |-> "dict", s |-> <<>>, e |-> pairs]
Item(v) == [key |-> <<>>, val |-> v]
Pair(key, v) == [key |-> key, val |-> v]
\* Cell values pandas introduces: a missing value and a float.
NaN == [k |-> "nan", s |-> <<>>, e |-> <<>>]
PyFloat(chars) == [k |-> "float", s |-> chars, e |-> <<>>]

\* Python truthiness of a parsed JSON value: `not data`.
IsFalsyNoneOnly(data) == data.k = "null"
IsFalsy(data) ==
    \/ data.k = "null"
    \/ data.k \in {"list", "dict"} /\ Len(data.e) = 0
    \/ data.k = "str" /\ Len(data.s) = 0
    \/ data.k = "int" /\ data.s = <<"0">>

----------------------------------------------------------------------------
(* Python str() / repr() of a cell, as used by Series.astype(str) *)

RECURSIVE Repr(_)
RECURSIVE JoinItems(_, _)
RECURSIVE JoinPairs(_, _)
Sep(i) == IF i > 1 THEN <<",", " ">> ELSE <<>>
Quote(chars) == <<"'">> \o chars \o <<"'">>
JoinItems(e, i) ==
    IF i > Len(e) THEN <<>>
    ELSE Sep(i) \o Repr(e[i].val) \o JoinItems(e, i + 1)
JoinPairs(e, i) ==
    IF i > Len(e) THEN <<>>
    ELSE Sep(i) \o Quote(e[i].key) \o <<":", " ">> \o Repr(e[i].val)
         \o JoinPairs(e, i + 1)
Repr(v) ==
    CASE v.k = "str" -> Quote(v.s)
      [] v.k \in {"int", "float"} -> v.s
      [] v.k = "null" -> <<"N", "o", "n", "e">>
      [] v.k = "nan" -> <<"n", "a", "n">>
      [] v.k = "list" -> <<"[">> \o JoinItems(v.e, 1) \o <<"]">>
      [] v.k = "dict" -> <<"{">> \o JoinPairs(v.e, 1) \o <<"}">>
PyStr(v) == IF v.k = "str" THEN v.s ELSE Repr(v)

----------------------------------------------------------------------------
(* pandas frames: [labels, nrows, cols]; labels is the inferred type of    *)
(* the column index ("str" or "int"), cols a sequence of [name, cells].    *)

Frame(labels, nrows, cols) == [labels |-> labels, nrows |-> nrows, cols |-> cols]
NoFrame == Frame("str", 0, <<>>)
Ok(frame) == [exc |-> "none", df |-> frame]
Raise(cls) == [exc |-> cls, df |-> NoFrame]

HasKey(d, key) == \E j \in 1..Len(d.e) : d.e[j].key = key
Get(d, key) == d.e[CHOOSE j \in 1..Len(d.e) : d.e[j].key = key].val
Contains(seq, x) == \E j \in 1..Len(seq) : seq[j] = x

\* Ordered union (first appearance) of the keys of the dicts in `vals`.
RECURSIVE AddKeys(_, _, _)
AddKeys(acc, e, j) ==
    IF j > Len(e) THEN acc
    ELSE AddKeys(IF Contains(acc, e[j].key) THEN acc ELSE Append(acc, e[j].key),
                 e, j + 1)
RECURSIVE UnionKeys(_, _, _)
UnionKeys(acc, vals, i) ==
    IF i > Len(vals) THEN acc
    ELSE UnionKeys(IF vals[i].k = "dict" THEN AddKeys(acc, vals[i].e, 1) ELSE acc,
                   vals, i + 1)

\* dtype inference of one column: integers beside missing values or None
\* become float64, the missing values NaN.
InferColumn(cells) ==
    IF /\ \A r \in 1..Len(cells) : cells[r].k \in {"int", "nan", "null"}
       /\ \E r \in 1..Len(cells) : cells[r].k = "int"
       /\ \E r \in 1..Len(cells) : cells[r].k \in {"nan", "null"}
    THEN [r \in 1..Len(cells) |->
            IF cells[r].k = "int" THEN PyFloat(cells[r].s \o <<".", "0">>)
            ELSE NaN]
    ELSE cells

Values(data) == [i \in 1..Len(data.e) |-> data.e[i].val]

\* pd.DataFrame(list of dicts): one row per element, one column per key.
FromListOfDicts(data) ==
    LET rows == Values(data)
        keys == UnionKeys(<<>>, rows, 1)
    IN  Frame("str", Len(rows),
              [c \in 1..Len(keys) |->
                 [name |-> keys[c],
                  cells |-> InferColumn(
                     [r \in 1..Len(rows) |->
                        IF HasKey(rows[r], keys[c]) THEN Get(rows[r], keys[c])
                        ELSE NaN])]])

\* pd.DataFrame(list of scalars): one column labelled with the integer 0.
FromListOfScalars(data) ==
    Frame("int", Len(data.e), << [name |-> <<"0">>, cells |-> Values(data)] >>)

\* A flattening construction (pd.json_normalize(data, sep="_")): one row, one
\* column per key path.
RECURSIVE FlatCols(_, _)
FlatCols(e, i) ==
    IF i > Len(e) THEN <<>>
    ELSE (IF e[i].val.k = "dict"
          THEN [j \in 1..Len(e[i].val.e) |->
                  [name |-> e[i].key \o <<"_">> \o e[i].val.e[j].key,
                   cells |-> <<e[i].val.e[j].val>>]]
          ELSE << [name |-> e[i].key, cells |-> <<e[i].val>>] >>)
         \o FlatCols(e, i + 1)
FromDictFlattened(data) == Ok(Frame("str", 1, FlatCols(data.e, 1)))

\* pd.DataFrame(dict): one column per key; the rows are the union of the
\* keys of the dict values, or the positions of the list values.
FromDict(data) ==
    LET vals == Values(data)
        haveDicts == \E i \in 1..Len(vals) : vals[i].k = "dict"
        haveLists == \E i \in 1..Len(vals) : vals[i].k = "list"
        index == UnionKeys(<<>>, vals, 1)
        lens == {Len(vals[i].e) : i \in {j \in 1..Len(vals) : vals[j].k = "list"}}
        n == CHOOSE m \in lens : TRUE
    IN  CASE Len(vals) = 0 -> Ok(Frame("int", 0, <<>>))
          [] Len(vals) > 0 /\ haveDicts /\ haveLists -> Raise("ValueError")
          [] Len(vals) > 0 /\ haveDicts /\ ~haveLists ->
               Ok(Frame("str", Len(index),
                  [c \in 1..Len(vals) |->
                     [name |-> data.e[c].key,
                      cells |-> InferColumn(
                         [r \in 1..Len(index) |->
                            IF vals[c].k = "dict"
                            THEN IF HasKey(vals[c], index[r])
                                 THEN Get(vals[c], index[r]) ELSE NaN
                            ELSE vals[c]])]]))
          [] Len(vals) > 0 /\ ~haveDicts /\ haveLists ->
               IF Cardinality(lens) > 1 THEN Raise("ValueError")
               ELSE Ok(Frame("str", n,
                  [c \in 1..Len(vals) |->
                     [name |-> data.e[c].key,
                      cells |-> InferColumn(
                         [r \in 1..n |->
                            IF vals[c].k = "list" THEN vals[c].e[r].val
                            ELSE vals[c]])]]))
          [] Len(vals) > 0 /\ ~haveDicts /\ ~haveLists -> Raise("ValueError")

\* pd.DataFrame(data).  Modelled shapes: null, a scalar, a dict, a list of
\* dicts (possibly with a non-dict element after the first) and a list of
\* scalars.
DataFrame(data) ==
    CASE data.k = "null" -> Ok(Frame("int", 0, <<>>))
      [] data.k \in {"int", "str"} -> Raise("ValueError")
      [] data.k = "dict" -> FromDict(data)
      [] data.k = "list" /\ Len(data.e) = 0 -> Ok(Frame("int", 0, <<>>))
      [] data.k = "list" /\ Len(data.e) > 0 /\ data.e[1].val.k = "dict" ->
           IF \A i \in 1..Len(data.e) : data.e[i].val.k = "dict"
           THEN Ok(FromListOfDicts(data))
           ELSE Raise("AttributeError")
      [] data.k = "list" /\ Len(data.e) > 0
           /\ \A i \in 1..Len(data.e) : data.e[i].val.k \notin {"dict", "list"} ->
           Ok(FromListOfScalars(data))

----------------------------------------------------------------------------
(* Column sanitization: str.replace('[^0-9a-zA-Z_]', '_').str.lower() *)

Digits == {"0", "1", "2", "3", "4", "5", "6", "7", "8", "9"}
LowerCase == <<"a", "b", "c", "d", "e", "f", "g", "h", "i", "j", "k", "l", "m",
               "n", "o", "p", "q", "r", "s", "t", "u", "v", "w", "x", "y", "z">>
UpperCase == <<"A", "B", "C", "D", "E", "F", "G", "H", "I", "J", "K", "L", "M",
               "N", "O", "P", "Q", "R", "S", "T", "U", "V", "W", "X", "Y", "Z">>
IsLower(c) == Contains(LowerCase, c)
IsUpper(c) == Contains(UpperCase, c)
ReplaceChar(c) ==
    IF c \in Digits \/ IsLower(c) \/ IsUpper(c) \/ c = "_" THEN c ELSE "_"
LowerChar(c) ==
    IF IsUpper(c) THEN LowerCase[CHOOSE i \in 1..26 : UpperCase[i] = c] ELSE c
SanitizeName(name) == [i \in 1..Len(name) |-> LowerChar(ReplaceChar(name[i]))]

\* df.columns = df.columns.str...: the .str accessor raises AttributeError
\* on a column index that does not hold strings.
Sanitize(frame) ==
    IF frame.labels # "str" THEN Raise("AttributeError")
    ELSE Ok([frame EXCEPT !.cols =
                [c \in 1..Len(frame.cols) |->
                   [frame.cols[c] EXCEPT !.name = SanitizeName(@)]]])

(* Coercion loop: for col in df.columns: if df[col].apply(type)            *)
(* .isin([list, dict]).any(): df[col] = df[col].astype(str).  With a       *)
(* duplicated label df[col] is a DataFrame, whose apply(type) yields the   *)
(* type of each column (Series), so the test is False.                     *)
IsComplex(cell) == cell.k \in {"list", "dict"}
HasComplex(cells) == \E r \in 1..Len(cells) : IsComplex(cells[r])
UniqueLabel(frame, c) ==
    \A d \in 1..Len(frame.cols) : d # c => frame.cols[d].name # frame.cols[c].name
AsTypeStr(cells) == [r \in 1..Len(cells) |-> JStr(PyStr(cells[r]))]
Coerce(frame) ==
    [frame EXCEPT !.cols =
        [c \in 1..Len(frame.cols) |->
           IF UniqueLabel(frame, c) /\ HasComplex(frame.cols[c].cells)
           THEN [frame.cols[c] EXCEPT !.cells = AsTypeStr(@)]
           ELSE frame.cols[c]]]

----------------------------------------------------------------------------
(* Inputs: the JSON bodies the API may return *)

K_id == <<"i", "d">>
K_tags == <<"t", "a", "g", "s">>
K_name == <<"n", "a", "m", "e">>
K_common == <<"c", "o", "m", "m", "o", "n">>
K_official == <<"o", "f", "f", "i", "c", "i", "a", "l">>
V_Brazil == <<"B", "r", "a", "z", "i", "l">>
V_Official == <<"F", "e", "d", "e", "r", "a", "t", "i", "v", "e", " ",
                "R", "e", "p", "u", "b", "l", "i", "c", " ", "o", "f", " ",
                "B", "r", "a", "z", "i", "l">>

\* []   {}   null   0
P_EmptyList == JList(<<>>)
P_EmptyDict == JDict(<<>>)
P_Null == JNull
P_Zero == JInt(<<"0">>)
\* [{"id":1,"tags":["a","b"]},{"id":2,"tags":[]}]
P_Tags ==
    JList(<< Item(JDict(<< Pair(K_id, JInt(<<"1">>)),
                          Pair(K_tags, JList(<< Item(JStr(<<"a">>)),
                                                Item(JStr(<<"b">>)) >>)) >>)),
             Item(JDict(<< Pair(K_id, JInt(<<"2">>)),
                          Pair(K_tags, JList(<<>>)) >>)) >>)
\* {"name":{"common":"Brazil","official":"Federative Republic of Brazil"}}
P_Brazil ==
    JDict(<< Pair(K_name, JDict(<< Pair(K_common, JStr(V_Brazil)),
                                   Pair(K_official, JStr(V_Official)) >>)) >>)
\* [{"Product ID":1,"preço":{"v":2},"n":3},{"Product ID":2}]
P_Mixed ==
    JList(<< Item(JDict(<< Pair(<<"P", "r", "o", "d", "u", "c", "t", " ", "I", "D">>,
                               JInt(<<"1">>)),
                          Pair(<<"p", "r", "e", "ç", "o">>,
                               JDict(<< Pair(<<"v">>, JInt(<<"2">>)) >>)),
                          Pair(<<"n">>, JInt(<<"3">>)) >>)),
             Item(JDict(<< Pair(<<"P", "r", "o", "d", "u", "c", "t", " ", "I", "D">>,
                               JInt(<<"2">>)) >>)) >>)
\* {"Name":{"common":"x"},"cca2":{"v":["BR"],"common":"y"}}
P_TwoNested ==
    JDict(<< Pair(<<"N", "a", "m", "e">>, JDict(<< Pair(K_common, JStr(<<"x">>)) >>)),
             Pair(<<"c", "c", "a", "2">>,
                  JDict(<< Pair(<<"v">>, JList(<< Item(JStr(<<"B", "R">>)) >>)),
                           Pair(K_common, JStr(<<"y">>)) >>)) >>)
\* [{"a b":[1],"a_b":2}]: two keys that sanitize to the same column name
P_Collide ==
    JList(<< Item(JDict(<< Pair(<<"a", " ", "b">>, JList(<< Item(JInt(<<"1">>)) >>)),
                          Pair(<<"a", "_", "b">>, JInt(<<"2">>)) >>)) >>)
\* [{"":1}]: an empty key
P_EmptyKey == JList(<< Item(JDict(<< Pair(<<>>, JInt(<<"1">>)) >>)) >>)
\* [1,2]   5   {"a":1}   [{"a":1},5]   {"a":[1,2],"b":[3]}
P_Scalars == JList(<< Item(JInt(<<"1">>)), Item(JInt(<<"2">>)) >>)
P_Number == JInt(<<"5">>)
P_DictOfScalars == JDict(<< Pair(<<"a">>, JInt(<<"1">>)) >>)
P_DictThenScalar ==
    JList(<< Item(JDict(<< Pair(<<"a">>, JInt(<<"1">>)) >>)), Item(JInt(<<"5">>)) >>)
P_Ragged ==
    JDict(<< Pair(<<"a">>, JList(<< Item(JInt(<<"1">>)), Item(JInt(<<"2">>)) >>)),
             Pair(<<"b">>, JList(<< Item(JInt(<<"3">>)) >>)) >>)
\* {"Items":[{"x":1},{"x":2}],"total":2}
P_Wrapped ==
    JDict(<< Pair(<<"I", "t", "e", "m", "s">>,
                  JList(<< Item(JDict(<< Pair(<<"x">>, JInt(<<"1">>)) >>)),
                           Item(JDict(<< Pair(<<"x">>, JInt(<<"2">>)) >>)) >>)),
             Pair(<<"t", "o", "t", "a", "l">>, JInt(<<"2">>)) >>)

EmptyPayloads == {P_EmptyList, P_EmptyDict, P_Null}
Payloads ==
    EmptyPayloads \cup
    {P_Zero, P_Tags, P_Brazil, P_TwoNested, P_Mixed, P_Collide, P_EmptyKey, P_Scalars,
     P_Number, P_DictOfScalars, P_DictThenScalar, P_Ragged, P_Wrapped}

----------------------------------------------------------------------------
(* requests: the outcomes of requests.get(url), raise_for_status(), json() *)

\* The class of the exception response.json() raises on an invalid body:
\* requests.exceptions.JSONDecodeError (a RequestException) from requests
\* 2.27 on, a plain ValueError before.
JsonErrorClasses == {"JSONDecodeError", "ValueError"}
NetworkFailure == [kind |-> "neterr", status |-> 0, parse |-> "na", json |-> JNull]
GoodBody(status, p) == [kind |-> "resp", status |-> status, parse |-> "ok", json |-> p]
BadBody(status, cls) == [kind |-> "resp", status |-> status, parse |-> cls, json |-> JNull]
\* Final status codes: redirects with a Location header are followed by
\* requests, any other 3xx response is returned as it is.
ErrorStatuses == {300, 404, 500}
GetOutcomes ==
    {NetworkFailure}
    \cup {GoodBody(200, p) : p \in Payloads}
    \cup {GoodBody(st, P_Tags) : st \in ErrorStatuses}
    \cup {BadBody(st, cls) : st \in {200} \cup ErrorStatuses, cls \in JsonErrorClasses}

\* Response.raise_for_status(): raises HTTPError for 4xx and 5xx.
RaiseForStatus(status) == 400 <= status /\ status < 600

\* The two except clauses of fetch_and_load.
RequestExceptions == {"ConnectionError", "HTTPError", "JSONDecodeError"}
Exceptions ==
    RequestExceptions \cup {"ValueError", "AttributeError", "GenericGBQException"}
ExceptClauseValueErrorOnly(cls) ==
    CASE cls \in RequestExceptions -> "network"
      [] cls = "ValueError" -> "generic"
      [] OTHER -> "uncaught"
ExceptClause(cls) ==
    CASE cls \in RequestExceptions -> "network"
      [] cls \in Exceptions -> "generic"
      [] OTHER -> "uncaught"

----------------------------------------------------------------------------
(* Configuration, sources and the warehouse *)

\* os.getenv: "<None>" stands for an unset variable.
EnvValuesProject == {"<None>", "", "proj"}
EnvValuesDataset == {"<None>", "", "ds"}
Truthy(v) == v \notin {"<None>", ""}
\* all([project_id, dataset_id])
ConfigOkAny(project, dataset) == Truthy(project) \/ Truthy(dataset)
ConfigOk(project, dataset) == Truthy(project) /\ Truthy(dataset)
\* The variables the configuration error message names.
ConfigMessageNames == {"GCP_PROJECT_ID", "BQ_DATASET_ID"}

SourcesReversed ==
    << [url |-> "https://fakestoreapi.com/carts", table |-> "raw_carts"],
       [url |-> "https://fakestoreapi.com/products", table |-> "raw_products"] >>
Sources ==
    << [url |-> "https://fakestoreapi.com/products", table |-> "raw_products"],
       [url |-> "https://fakestoreapi.com/carts", table |-> "raw_carts"] >>
SourceTables == {"raw_products", "raw_carts"}
TableNames == SourceTables \cup {"other"}

\* to_gbq(df, destination_table, project_id, if_exists): the contents of a
\* table are the sequence of frames loaded into it.
IfExistsAppend == "append"
IfExists == "replace"
ToGbq(content, frame, ifExists) ==
    CASE ifExists = "replace" -> <<frame>>
      [] ifExists = "append" -> Append(content, frame)
LegacyFrame ==
    Frame("str", 1, << [name |-> <<"o", "l", "d">>, cells |-> <<JInt(<<"7">>)>>] >>)

----------------------------------------------------------------------------
(* State *)

VARIABLES
    pc,          \* "idle", "fetch", "transform", "load", "returned", "raised", "killed"
    cur,         \* index in Sources of the source being processed
    runs,        \* number of process starts so far
    project_id,  \* run_pipeline's locals
    dataset_id,
    data,        \* fetch_and_load's locals: the parsed body and the frame
    df,
    tables,      \* the warehouse: <<dataset, table>> -> contents
    tables0,     \* the warehouse when the current run started
    log,         \* the records logged by the current run
    gets,        \* per source table: HTTP GETs issued in the current run
    writes,      \* per source table: to_gbq calls in the current run
    fetched,     \* per source table: what the GET of the current run returned
    result       \* per source table: how fetch_and_load ended in the current run

vars == <<pc, cur, runs, project_id, dataset_id, data, df, tables, tables0, log,
          gets, writes, fetched, result>>

Dest(dataset, table) == <<dataset, table>>
AllDests == {Dest("ds", t) : t \in TableNames}
NotFetched == [kind |-> "none", status |-> 0, parse |-> "na", json |-> JNull]

Rec(level, msg, table, exc, names) ==
    [level |-> level, msg |-> msg, table |-> table, exc |-> exc, names |-> names]
Info(msg, table) == Rec("INFO", msg, table, "", {})
Warning(msg, table) == Rec("WARNING", msg, table, "", {})
Error(msg, table, exc) == Rec("ERROR", msg, table, exc, {})

Table == Sources[cur].table

Init ==
    /\ pc = "idle"
    /\ cur = 1
    /\ runs = 0
    /\ project_id = "<None>"
    /\ dataset_id = "<None>"
    /\ data = JNull
    /\ df = NoFrame
    /\ tables = [d \in AllDests |-> <<LegacyFrame>>]
    /\ tables0 = [d \in AllDests |-> <<LegacyFrame>>]
    /\ log = <<>>
    /\ gets = [t \in SourceTables |-> 0]
    /\ writes = [t \in SourceTables |-> 0]
    /\ fetched = [t \in SourceTables |-> NotFetched]
    /\ result = [t \in SourceTables |-> "pending"]

\* fetch_and_load returns (normally or from an except clause): run_pipeline
\* goes on to the next source, or logs the end of the pipeline and returns.
Return(lg, res) ==
    /\ result' = [result EXCEPT ![Table] = res]
    /\ data' = JNull
    /\ df' = NoFrame
    /\ IF cur < Len(Sources)
       THEN /\ cur' = cur + 1
            /\ pc' = "fetch"
            /\ log' = lg
       ELSE /\ cur' = cur
            /\ pc' = "returned"
            /\ log' = Append(lg, Info("pipeline_end", ""))

\* An exception of class cls raised inside the try block.
Handle(lg, cls, res) ==
    CASE ExceptClause(cls) = "network" ->
           Return(Append(lg, Error("network_error", Table, cls)), res)
      [] ExceptClause(cls) = "generic" ->
           Return(Append(lg, Error("processing_failure", Table, cls)), res)
      [] OTHER ->
           /\ pc' = "raised"
           /\ log' = lg
           /\ result' = [result EXCEPT ![Table] = "raised"]
           /\ UNCHANGED <<cur, data, df>>

\* run_pipeline up to its first call of fetch_and_load (a process start).
RunPipeline ==
    /\ pc \in {"idle", "returned", "raised", "killed"}
    /\ runs < MaxRuns
    /\ runs' = runs + 1
    /\ \E p \in EnvValuesProject, d \in EnvValuesDataset :
         /\ project_id' = p
         /\ dataset_id' = d
         /\ IF ~ConfigOk(p, d)
            THEN /\ log' = <<Rec("ERROR", "config_missing", "", "", ConfigMessageNames)>>
                 /\ pc' = "returned"
            ELSE /\ log' = <<Info("pipeline_start", "")>>
                 /\ pc' = "fetch"
    /\ cur' = 1
    /\ data' = JNull
    /\ df' = NoFrame
    /\ tables0' = tables
    /\ gets' = [t \in SourceTables |-> 0]
    /\ writes' = [t \in SourceTables |-> 0]
    /\ fetched' = [t \in SourceTables |-> NotFetched]
    /\ result' = [t \in SourceTables |-> "pending"]
    /\ UNCHANGED tables

\* fetch_and_load: the GET, raise_for_status, json() and the empty guard.
Fetch ==
    /\ pc = "fetch"
    /\ \E r \in GetOutcomes :
         LET lg == Append(log, Info("extract_start", Table)) IN
         /\ gets' = [gets EXCEPT ![Table] = @ + 1]
         /\ fetched' = [fetched EXCEPT ![Table] = r]
         /\ IF r.kind = "neterr" THEN Handle(lg, "ConnectionError", "fetch_failed")
            ELSE IF RaiseForStatus(r.status) THEN Handle(lg, "HTTPError", "fetch_failed")
            ELSE IF r.parse # "ok" THEN Handle(lg, r.parse, "parse_failed")
            ELSE IF IsFalsy(r.json)
            THEN Return(Append(Append(lg, Info("extract_ok", Table)),
                               Warning("empty_skip", Table)), "skipped")
            ELSE /\ data' = r.json
                 /\ log' = Append(lg, Info("extract_ok", Table))
                 /\ pc' = "transform"
                 /\ UNCHANGED <<cur, df, result>>
    /\ UNCHANGED <<runs, project_id, dataset_id, tables, tables0, writes>>

\* fetch_and_load: DataFrame construction, column sanitization, coercion.
Transform ==
    /\ pc = "transform"
    /\ LET built == DataFrame(data)
           clean == Sanitize(built.df)
       IN  IF built.exc # "none" THEN Handle(log, built.exc, "failed")
           ELSE IF clean.exc # "none" THEN Handle(log, clean.exc, "failed")
           ELSE /\ df' = Coerce(clean.df)
                /\ log' = Append(log, Info("normalized", Table))
                /\ pc' = "load"
                /\ UNCHANGED <<cur, data, result>>
    /\ UNCHANGED <<runs, project_id, dataset_id, tables, tables0, gets, writes,
                   fetched>>

\* fetch_and_load: the to_gbq call, which replaces the table or raises.
Load ==
    /\ pc = "load"
    /\ writes' = [writes EXCEPT ![Table] = @ + 1]
    /\ LET lg == Append(log, Info("load_start", Table))
           dest == Dest(dataset_id, Table)
       IN  \E ok \in BOOLEAN :
             IF ok
             THEN /\ tables' = [tables EXCEPT ![dest] = ToGbq(@, df, IfExists)]
                  /\ Return(Append(lg, Info("load_ok", Table)), "success")
             ELSE /\ tables' = tables
                  /\ Handle(lg, "GenericGBQException", "failed")
    /\ UNCHANGED <<runs, project_id, dataset_id, tables0, gets, fetched>>

\* The process is killed between two steps.
Interrupt ==
    /\ pc \in {"fetch", "transform", "load"}
    /\ pc' = "killed"
    /\ UNCHANGED <<cur, runs, project_id, dataset_id, data, df, tables, tables0,
                   log, gets, writes, fetched, result>>

Next == RunPipeline \/ Fetch \/ Transform \/ Load \/ Interrupt

Spec == Init /\ [][Next]_vars

----------------------------------------------------------------------------
(* Properties *)

Count(level, t) ==
    Cardinality({i \in 1..Len(log) : log[i].level = level /\ log[i].table = t})
Processed(t) == result[t] # "pending"
Configured == Truthy(project_id) /\ Truthy(dataset_id)
Names(frame) == [c \in 1..Len(frame.cols) |-> frame.cols[c].name]
FetchFailed(t) ==
    \/ fetched[t].kind = "neterr"
    \/ fetched[t].kind = "resp" /\ fetched[t].status \notin 200..299
FetchFailed4xx5xx(t) ==
    \/ fetched[t].kind = "neterr"
    \/ fetched[t].kind = "resp" /\ fetched[t].status \in 400..599
FetchFailureEffects(t) ==
    /\ writes[t] = 0
    /\ tables[Dest(dataset_id, t)] = tables0[Dest(dataset_id, t)]
    /\ Processed(t) => Count("ERROR", t) = 1
    /\ pc = "returned" => \A u \in SourceTables : gets[u] = 1 /\ Processed(u)

\* C1: whenever the fetch of a source fails (a network failure or a non-2xx
\* status), to_gbq is never called for that source, exactly one error naming
\* its table is logged, and the later source is still processed; with the
\* first fetch failed and the second loaded, only the second table changes.
C1_FetchFailureSkipsLoad ==
    /\ pc # "raised"
    /\ \A t \in SourceTables : FetchFailed(t) => FetchFailureEffects(t)

\* The same statement for network failures and the 4xx and 5xx statuses only,
\* the ones raise_for_status() turns into an exception.
FetchFailureSkipsLoad4xx5xx ==
    /\ pc # "raised"
    /\ \A t \in SourceTables : FetchFailed4xx5xx(t) => FetchFailureEffects(t)

\* C2: when GCP_PROJECT_ID or BQ_DATASET_ID is unset or empty, the run logs
\* one error and returns having issued no GET and no to_gbq call, with every
\* table as it was, and no exception.
C2_MissingConfigNoWork ==
    (runs > 0 /\ ~Configured) =>
        /\ pc = "returned"
        /\ \A t \in SourceTables : gets[t] = 0 /\ writes[t] = 0 /\ ~Processed(t)
        /\ tables = tables0
        /\ Len(log) = 1
        /\ log[1].level = "ERROR"
C2_Witness ==
    /\ runs = 2
    /\ project_id = "proj"
    /\ dataset_id = ""
    /\ pc = "returned"
    /\ tables[Dest("ds", "raw_products")] # <<LegacyFrame>>

\* C3: a failure of the DataFrame construction, the column sanitization, the
\* coercion or the to_gbq call is caught in fetch_and_load and logged as one
\* error with the table name and the exception; no exception escapes, and a
\* configured run that returns has processed both sources.
C3_PerSourceErrorsCaught ==
    /\ pc # "raised"
    /\ \A t \in SourceTables :
         result[t] = "failed" =>
            /\ Count("ERROR", t) = 1
            /\ \E i \in 1..Len(log) :
                 /\ log[i].level = "ERROR"
                 /\ log[i].table = t
                 /\ log[i].exc \in Exceptions
    /\ (pc = "returned" /\ Configured) =>
          \A t \in SourceTables : Processed(t) /\ gets[t] = 1
C3_Witness ==
    /\ pc = "returned"
    /\ result["raw_products"] = "failed"
    /\ fetched["raw_products"].json = P_Scalars
    /\ result["raw_carts"] = "success"

EmptyFetched(t) ==
    /\ fetched[t].kind = "resp"
    /\ fetched[t].status \in 200..299
    /\ fetched[t].parse = "ok"
    /\ fetched[t].json \in EmptyPayloads
\* C4: a source whose fetched and parsed body is [], {} or null never reaches
\* to_gbq: one warning naming its table is logged, no error, and its table is
\* unchanged.
C4_EmptyPayloadSkipsLoad ==
    \A t \in SourceTables :
        EmptyFetched(t) =>
            /\ writes[t] = 0
            /\ result[t] = "skipped"
            /\ Count("WARNING", t) = 1
            /\ Count("ERROR", t) = 0
            /\ tables[Dest(dataset_id, t)] = tables0[Dest(dataset_id, t)]
C4_Witness ==
    /\ pc = "returned"
    /\ runs = 2
    /\ EmptyFetched("raw_products")
    /\ fetched["raw_products"].json = P_EmptyDict
    /\ result["raw_carts"] = "success"
    /\ tables[Dest("ds", "raw_products")] # <<LegacyFrame>>

C5_StatePart ==
    \A t \in SourceTables :
        LET d == Dest("ds", t) IN
        /\ Len(tables[d]) = 1
        /\ result[t] # "success" => tables[d] = tables0[d]
C5_ActionPart ==
    \A d \in AllDests :
        tables'[d] # tables[d] =>
            /\ pc = "load"
            /\ d = Dest(dataset_id, Table)
            /\ tables'[d] = <<df>>
            /\ result'[Table] = "success"
\* C5: a table changes only by a successful to_gbq call for its own source,
\* and then holds exactly the frame of that call (nothing of its previous
\* contents); a table whose source is pending, skipped or failed in the
\* current run is as it was when the run started, also after an interruption.
C5_ReplaceOrUnchanged == [](C5_StatePart) /\ [][C5_ActionPart]_vars
C5_Witness ==
    /\ pc = "killed"
    /\ runs = 2
    /\ cur = 2
    /\ result["raw_products"] = "success"
    /\ tables[Dest("ds", "raw_products")] # tables0[Dest("ds", "raw_products")]
    /\ tables0[Dest("ds", "raw_products")] # <<LegacyFrame>>
    /\ tables0[Dest("ds", "raw_carts")] # <<LegacyFrame>>
    /\ tables[Dest("ds", "raw_carts")] = tables0[Dest("ds", "raw_carts")]

ValidChar(c) == c \in Digits \/ IsLower(c) \/ c = "_"
\* C6: every column name of the frame passed to to_gbq matches [a-z0-9_]+.
C6_ColumnNamesValid ==
    pc = "load" =>
        \A c \in 1..Len(df.cols) :
            /\ Len(df.cols[c].name) > 0
            /\ \A i \in 1..Len(df.cols[c].name) : ValidChar(df.cols[c].name[i])
\* The same without the requirement that the name is not empty.
ColumnNamesValidChars ==
    pc = "load" =>
        \A c \in 1..Len(df.cols) :
            \A i \in 1..Len(df.cols[c].name) : ValidChar(df.cols[c].name[i])

BeforeCoercion == Sanitize(DataFrame(data).df).df
\* C7: after the coercion step every column that held a list or dict cell
\* holds only strings, and every other column is as it was before the step.
C7_ComplexColumnsAreStrings ==
    pc = "load" =>
        \A c \in 1..Len(df.cols) :
            IF HasComplex(BeforeCoercion.cols[c].cells)
            THEN \A r \in 1..Len(df.cols[c].cells) : df.cols[c].cells[r].k = "str"
            ELSE df.cols[c] = BeforeCoercion.cols[c]
\* The same for the columns whose sanitized name no other column has.
ComplexColumnsAreStringsUnique ==
    pc = "load" =>
        \A c \in 1..Len(df.cols) :
            IF HasComplex(BeforeCoercion.cols[c].cells)
            THEN UniqueLabel(df, c) =>
                    \A r \in 1..Len(df.cols[c].cells) : df.cols[c].cells[r].k = "str"
            ELSE df.cols[c] = BeforeCoercion.cols[c]

DictOfDicts(v) ==
    /\ v.k = "dict"
    /\ Len(v.e) > 0
    /\ \A i \in 1..Len(v.e) : v.e[i].val.k = "dict"
MissingNames ==
    (IF Truthy(project_id) THEN {} ELSE {"GCP_PROJECT_ID"})
    \cup (IF Truthy(dataset_id) THEN {} ELSE {"BQ_DATASET_ID"})
\* C9: the configuration error names exactly the variables that are missing.
C9_ErrorNamesExactlyMissing ==
    (runs > 0 /\ ~Configured /\ pc = "returned") =>
        /\ Len(log) = 1
        /\ log[1].level = "ERROR"
        /\ log[1].names = MissingNames

\* C10: in a configured run each source gets at most one GET and at most one
\* to_gbq call, nothing is written without a GET, the GET for raw_carts comes
\* only after fetch_and_load has ended for raw_products, at most one source
\* is in progress, and a run that returns has issued exactly one GET each.
C10_SequentialOneShot ==
    /\ \A t \in SourceTables : gets[t] <= 1 /\ writes[t] <= gets[t]
    /\ gets["raw_carts"] = 1 =>
          gets["raw_products"] = 1 /\ Processed("raw_products")
    /\ \A t \in SourceTables :
          (gets[t] = 1 /\ ~Processed(t)) => (pc \in {"transform", "load", "killed"} /\ t = Table)
    /\ \A t \in SourceTables : Processed(t) => gets[t] = 1
    /\ (pc = "returned" /\ Configured) => \A t \in SourceTables : gets[t] = 1
C10_Witness ==
    /\ pc = "load"
    /\ Table = "raw_carts"
    /\ gets = [t \in SourceTables |-> 1]
    /\ writes["raw_products"] = 1
    /\ result["raw_products"] = "failed"

====
